---- MODULE Spec2Model ----
(***************************************************************************)
(* Access layer of the mito2 storage engine (src/mito2/src/access_layer.rs):*)
(* AccessLayer::write_sst and AccessLayer::delete_sst, run by concurrent    *)
(* tasks against one object store and one cache manager.                    *)
(*                                                                          *)
(* Every `.await` of the source is a suspension point: a call is split into *)
(* the step that issues a store operation and the step that resumes the     *)
(* task with the operation's outcome.  A task suspended at an await may be  *)
(* cancelled (its future dropped).                                          *)
(***************************************************************************)
EXTENDS Naturals, Sequences, FiniteSets, TLC

\* Bounds of the model.
MaxTasks == 2
MaxFiles == 2

Tasks == 1..MaxTasks
FileIds == 1..MaxFiles

\* An AccessLayer serves one region directory: every request carries the
\* RegionMetadata of that region.
RegionIds == {"region-1"}

VARIABLES
    store,       \* object store: the set of paths that hold a file
    meta_cache,  \* cache manager: entries (region_id, file_id, metadata)
    used,        \* FileIds already generated by producers
    file_metas,  \* FileMeta of the SSTs committed and known to callers
    pc,          \* per task: position in its current call
    req,         \* per task: the argument of its current call
    sst_info,    \* per task: write_sst's local `sst_info`
    ret,         \* per task: the value its call returned
    inflight,    \* per task: paths with a store delete in flight
    deletes,     \* per task: store delete events of the current call
    paths_tried, \* per task: write paths entered by the current call
    wtrace,      \* per task: write/put events of the current call
    put_log,     \* per task: put_parquet_meta_data calls of the current call
    \* Temp file provider (sst/index/creator/temp_provider.rs)
    scratch,     \* intermediate files in the store: records (path, data)
    dir_entries, \* paths the store lists as directories
    writers,     \* open write handles returned by create
    created,     \* the (column, file id) pairs create was called with
    closed_runs, \* what the index builder wrote to the handles it closed
    rd,          \* the read_all call in progress and its outcome
    cl,          \* the outcome of the last cleanup call
    \* Local filesystem store (new_fs_object_store, clean_dir)
    fs_files,    \* files under the store's root
    fs_dirs,     \* directories under the store's root
    fs,          \* the process: provisioning call, store and open writes
    \* MY_SUM aggregate (query/tests/my_sum_udaf_example.rs)
    my_sum       \* one query: its accumulators and what they were given

accessvars == <<store, meta_cache, used, file_metas, pc, req, sst_info, ret,
                inflight, deletes, paths_tried, wtrace, put_log>>

tempvars == <<scratch, dir_entries, writers, created, closed_runs, rd, cl>>

fsvars == <<fs_files, fs_dirs, fs>>

sumvars == <<my_sum>>

vars == <<accessvars, tempvars, fsvars, sumvars>>

----------------------------------------------------------------------------
\* Values

\* AccessLayer.region_dir
region_dir == "region_dir/"

\* location::sst_file_path(region_dir, file_id)
sst_file_path(dir, file_id) ==
    [dir |-> dir, sub |-> "", file_id |-> file_id, ext |-> ".parquet"]

\* location::index_file_path(region_dir, file_id)
index_file_path(dir, file_id) ==
    [dir |-> dir, sub |-> "index/", file_id |-> file_id, ext |-> ".puffin"]

\* Option<Arc<ParquetMetaData>>::None
NoMetadata == [present |-> FALSE, file_id |-> 0]

\* The parquet metadata the writer parsed for the file it wrote.
ParquetMetaData(file_id) == [present |-> TRUE, file_id |-> file_id]

\* Option<SstInfo>::None
NoSstInfo ==
    [some |-> FALSE, file_metadata |-> NoMetadata,
     inverted_index_available |-> FALSE]

\* Some(SstInfo { file_metadata, inverted_index_available, .. })
SomeSstInfo(md, idx) ==
    [some |-> TRUE, file_metadata |-> md, inverted_index_available |-> idx]

NoReq ==
    [op |-> "none", file_id |-> 0, region_id |-> "", has_rows |-> FALSE,
     write_cache |-> FALSE, inverted_index_available |-> FALSE,
     had_sst |-> FALSE, had_idx |-> FALSE]

\* SstWriteRequest { file_id, metadata, source, cache_manager, .. }: of the
\* source only whether it yields any row batch matters to the layer.
SstWriteRequest(file_id, region_id, has_rows, write_cache) ==
    [op |-> "write_sst", file_id |-> file_id, region_id |-> region_id,
     has_rows |-> has_rows, write_cache |-> write_cache,
     inverted_index_available |-> FALSE,
     had_sst |-> FALSE, had_idx |-> FALSE]

\* FileMeta { region_id, file_id, inverted_index_available, .. }
FileMeta(file_id, region_id, idx) ==
    [file_id |-> file_id, region_id |-> region_id,
     inverted_index_available |-> idx]

NoRet == [tag |-> "none", kind |-> "", file_id |-> 0, val |-> NoSstInfo]
OkRet(info) == [tag |-> "Ok", kind |-> "", file_id |-> 0, val |-> info]
ErrRet(kind, file_id) ==
    [tag |-> "Err", kind |-> kind, file_id |-> file_id, val |-> NoSstInfo]

\* CacheManager::put_parquet_meta_data: insert under (region_id, file_id).
CachePut(cache, entries) ==
    {c \in cache : \A e \in entries :
        ~(c.region_id = e.region_id /\ c.file_id = e.file_id)} \cup entries

\* put_parquet_meta_data is fire-and-forget: the cache manager stores the
\* entries, or drops them (cache disabled, full, or failing).
put_parquet_meta_data(cache, entries, stored) ==
    IF stored THEN CachePut(cache, entries) ELSE cache

CacheGet(cache, region_id, file_id) ==
    {c \in cache : c.region_id = region_id /\ c.file_id = file_id}

----------------------------------------------------------------------------
\* Values of the temp file provider

\* Paths below the build's scoped root, as lists of components:
\* IntermediateLocation::root_path, column_path and file_path.
root_path == <<>>
column_path(column_id) == <<column_id>>
file_path(column_id, file_id) == <<column_id, file_id>>

\* `prefix` is the path `p` or one of its ancestors.
IsUnder(p, prefix) ==
    /\ Len(prefix) <= Len(p)
    /\ \A i \in 1..Len(prefix) : p[i] = prefix[i]

\* No read_all call in progress.
NoRead ==
    [pc |-> "Idle", column |-> 0, todo |-> {}, readers |-> <<>>,
     returned |-> <<>>, ret |-> "none", listed |-> {},
     closed_at_start |-> {}]

TempInit ==
    /\ scratch = {}
    /\ dir_entries = {}
    /\ writers = {}
    /\ created = {}
    /\ closed_runs = {}
    /\ rd = NoRead
    /\ cl = [last |-> "none", ok_in_a_row |-> 0, purged |-> 0]

----------------------------------------------------------------------------
\* Values of the local filesystem store

\* Directories as lists of components below `root`.
fs_root == <<>>

\* join_dir(root, ".tmp/")
join_dir(dir, sub) == Append(dir, sub)

\* No provisioning call made yet: the process is down.
NoProvision ==
    [phase |-> "down", exists |-> FALSE, ret |-> "none", fault |-> FALSE,
     writes |-> {}, names |-> {}, staged_before |-> {},
     committed_before |-> {}, fresh |-> FALSE, in_a_row |-> 0,
     wiped |-> 0]

FsInit ==
    /\ fs_files = {}
    /\ fs_dirs = {}
    /\ fs = NoProvision

----------------------------------------------------------------------------
\* Values of the MY_SUM aggregate

\* A native integer is the list of its 16-bit limbs, lowest first, in two's
\* complement: 2 limbs for a 32-bit type, 4 for a 64-bit type.
LimbBase == 65536
NarrowLimbs == 2
WideLimbs == 4
\* Limbs of the exact sum the results are compared with.
ExactLimbs == 6

\* The input types of the column.
LogicalTypes == {"UInt32", "UInt64", "Int32", "Int64"}

Signed(type) == type \in {"Int32", "Int64"}

NativeLimbs(type) ==
    IF type \in {"UInt32", "Int32"} THEN NarrowLimbs ELSE WideLimbs

\* LogicalPrimitiveType::LargestType
LargestType(type) == IF Signed(type) THEN "Int64" ELSE "UInt64"

Zero(n) == [i \in 1..n |-> 0]
One(n) == [i \in 1..n |-> IF i = 1 THEN 1 ELSE 0]
\* All bits set: the unsigned maximum, or -1 of a signed type.
AllOnes(n) == [i \in 1..n |-> LimbBase - 1]
\* The signed maximum and minimum.
SignedMax(n) ==
    [i \in 1..n |-> IF i = n THEN (LimbBase \div 2) - 1 ELSE LimbBase - 1]
SignedMin(n) == [i \in 1..n |-> IF i = n THEN LimbBase \div 2 ELSE 0]

\* The sign bit of a two's complement value.
Negative(a) == a[Len(a)] >= LimbBase \div 2

\* The carry into limb i of a + b.
RECURSIVE Carry(_, _, _)
Carry(a, b, i) ==
    IF i = 1 THEN 0
    ELSE (a[i - 1] + b[i - 1] + Carry(a, b, i - 1)) \div LimbBase

\* a + b at the width of a: what `+=` leaves when it does not panic.
WrappingAdd(a, b) ==
    [i \in 1..Len(a) |-> (a[i] + b[i] + Carry(a, b, i)) % LimbBase]

\* a + b does not fit the type.
Overflows(a, b, signed) ==
    IF signed
    THEN Negative(a) = Negative(b) /\ Negative(WrappingAdd(a, b)) # Negative(a)
    ELSE Carry(a, b, Len(a) + 1) = 1

\* The value of `a` at n limbs: sign extension of a signed type, zero
\* extension of an unsigned one.
Extend(a, signed, n) ==
    [i \in 1..n |->
        IF i <= Len(a) THEN a[i]
        ELSE IF signed /\ Negative(a) THEN LimbBase - 1 ELSE 0]

\* MySumAccumulator::<T, SumT>::default(): sum is SumT's zero.
DefaultAccumulator == [sum |-> Zero(WideLimbs), panicked |-> FALSE]

\* No query made yet.
NoQuery ==
    [pc |-> "none", input_type |-> "", overflow_checks |-> FALSE,
     whole |-> DefaultAccumulator,
     partial |-> <<DefaultAccumulator, DefaultAccumulator>>,
     merged |-> DefaultAccumulator,
     exact |-> Zero(ExactLimbs), batches |-> 0,
     result |-> Zero(WideLimbs),
     last |-> [op |-> "none", empty |-> FALSE, unchanged |-> TRUE]]

SumInit == my_sum = NoQuery

----------------------------------------------------------------------------
\* Initial state: an empty region, every task idle; no scratch file; an
\* empty filesystem root; no query.

Init ==
    /\ TempInit
    /\ FsInit
    /\ SumInit
    /\ store = {}
    /\ meta_cache = {}
    /\ used = {}
    /\ file_metas = {}
    /\ pc = [t \in Tasks |-> "Idle"]
    /\ req = [t \in Tasks |-> NoReq]
    /\ sst_info = [t \in Tasks |-> NoSstInfo]
    /\ ret = [t \in Tasks |-> NoRet]
    /\ inflight = [t \in Tasks |-> {}]
    /\ deletes = [t \in Tasks |-> <<>>]
    /\ paths_tried = [t \in Tasks |-> <<>>]
    /\ wtrace = [t \in Tasks |-> <<>>]
    /\ put_log = [t \in Tasks |-> {}]

----------------------------------------------------------------------------
\* AccessLayer::write_sst

\* FileId::random(): a producer generates a FileId no one has used yet.
FreshFileId == CHOOSE f \in FileIds \ used : \A g \in FileIds \ used : f <= g

\* `if let Some(write_cache) = request.cache_manager.write_cache()`: the
\* branch is a presence check of the write cache.
select_write_path(write_cache) ==
    IF write_cache THEN "DelegatedToCache" ELSE "DirectWrite"

\* The SST path handed to the underlying writer (`upload_path: file_path`
\* or `ParquetWriter::new(file_path, ..)`).
upload_path(file_id) == sst_file_path(region_dir, file_id)

\* The index path handed to the underlying writer: only the write cache is
\* given `index_upload_path`; the direct writer gets no index path.
index_upload_paths(path_taken, file_id) ==
    IF path_taken = "DelegatedToCache"
    THEN {index_file_path(region_dir, file_id)}
    ELSE {}

\* Mutant: a failed write-cache upload falls back to the direct writer.
on_write_error_fallback(path_taken) ==
    IF path_taken = "DelegatedToCache" THEN "DirectWrite" ELSE "Failed"

\* `.await?` on the underlying write: an error ends the call.
on_write_error(path_taken) == "Failed"

\* Mutant: the error is swallowed and reported as "nothing written".
write_error_return_swallow(err) == OkRet(NoSstInfo)

\* `?` returns the underlying error itself.
write_error_return(err) == err

\* Mutant: the entry is keyed by the metadata's own default file id.
cache_puts_wrong_key(region_id, file_id, info) ==
    IF info.some /\ info.file_metadata.present
    THEN {[region_id |-> region_id, file_id |-> 0,
           metadata |-> info.file_metadata]}
    ELSE {}

\* The put_parquet_meta_data calls made once the write has returned Ok.
cache_puts(region_id, file_id, info) ==
    IF info.some /\ info.file_metadata.present
    THEN {[region_id |-> region_id, file_id |-> file_id,
           metadata |-> info.file_metadata]}
    ELSE {}

\* Mutant: an empty write is reported as an error.
write_sst_return_none_is_error(info, stored) ==
    IF info.some THEN OkRet(info) ELSE ErrRet("Empty", 0)

\* Mutant: a put the cache manager did not store fails the call.
write_sst_return_fails_on_drop(info, stored) ==
    IF stored THEN OkRet(info) ELSE ErrRet("Cache", 0)

\* `Ok(sst_info)`: the value returned does not look at the cache manager.
write_sst_return(info, stored) == OkRet(info)

\* Tasks are interchangeable: a new call runs on the lowest idle task.
LowestIdle(t) == pc[t] = "Idle" /\ \A u \in Tasks : u < t => pc[u] # "Idle"

\* Mutant: the metadata cache is populated when the write is issued.
WriteSstStart_put_first(t, region_id, has_rows, write_cache) ==
    /\ LowestIdle(t)
    /\ FileIds \ used # {}
    /\ LET f == FreshFileId
           path_taken == select_write_path(write_cache)
           puts == {[region_id |-> region_id, file_id |-> f,
                     metadata |-> ParquetMetaData(f)]}
       IN /\ used' = used \cup {f}
          /\ req' = [req EXCEPT ![t] =
                        SstWriteRequest(f, region_id, has_rows, write_cache)]
          /\ pc' = [pc EXCEPT ![t] = path_taken]
          /\ paths_tried' = [paths_tried EXCEPT ![t] = <<path_taken>>]
          /\ wtrace' = [wtrace EXCEPT ![t] = <<"put", "write">>]
          /\ put_log' = [put_log EXCEPT ![t] = puts]
          /\ meta_cache' = put_parquet_meta_data(meta_cache, puts, TRUE)
    /\ sst_info' = [sst_info EXCEPT ![t] = NoSstInfo]
    /\ ret' = [ret EXCEPT ![t] = NoRet]
    /\ UNCHANGED <<store, file_metas, inflight, deletes>>
    /\ UNCHANGED <<tempvars, fsvars, sumvars>>

\* A caller builds an SstWriteRequest and calls write_sst; the call computes
\* the paths, picks its branch and suspends on the underlying write.
WriteSstStart(t, region_id, has_rows, write_cache) ==
    /\ LowestIdle(t)
    /\ FileIds \ used # {}
    /\ LET f == FreshFileId
           path_taken == select_write_path(write_cache)
       IN /\ used' = used \cup {f}
          /\ req' = [req EXCEPT ![t] =
                        SstWriteRequest(f, region_id, has_rows, write_cache)]
          /\ pc' = [pc EXCEPT ![t] = path_taken]
          /\ paths_tried' = [paths_tried EXCEPT ![t] = <<path_taken>>]
          /\ wtrace' = [wtrace EXCEPT ![t] = <<"write">>]
    /\ sst_info' = [sst_info EXCEPT ![t] = NoSstInfo]
    /\ ret' = [ret EXCEPT ![t] = NoRet]
    /\ put_log' = [put_log EXCEPT ![t] = {}]
    /\ UNCHANGED <<store, meta_cache, file_metas, inflight, deletes>>
    /\ UNCHANGED <<tempvars, fsvars, sumvars>>

\* The underlying write (WriteCache::write_and_upload_sst or
\* ParquetWriter::write_all) completes: an empty source writes nothing and
\* yields None; otherwise the file becomes addressable at the upload path
\* (with its index, when the writer built one) and the SstInfo is produced.
UnderlyingWriteOk(t, md_present, idx_built) ==
    /\ pc[t] \in {"DelegatedToCache", "DirectWrite"}
    /\ LET r == req[t]
           idx_paths == IF idx_built
                        THEN index_upload_paths(pc[t], r.file_id) ELSE {}
           md == IF md_present
                 THEN ParquetMetaData(r.file_id) ELSE NoMetadata
       IN IF ~r.has_rows
          THEN /\ sst_info' = [sst_info EXCEPT ![t] = NoSstInfo]
               /\ store' = store
          ELSE /\ sst_info' = [sst_info EXCEPT ![t] =
                                  SomeSstInfo(md, idx_paths # {})]
               /\ store' = store \cup {upload_path(r.file_id)} \cup idx_paths
    /\ pc' = [pc EXCEPT ![t] = "Written"]
    /\ wtrace' = [wtrace EXCEPT ![t] = Append(@, "write_ok")]
    /\ UNCHANGED <<meta_cache, used, file_metas, req, ret, inflight, deletes,
                   paths_tried, put_log>>
    /\ UNCHANGED <<tempvars, fsvars, sumvars>>

\* The underlying write fails partway: nothing becomes addressable (the
\* writer's atomic-write contract) and write_sst returns the error.
UnderlyingWriteFail(t) ==
    /\ pc[t] \in {"DelegatedToCache", "DirectWrite"}
    /\ req[t].has_rows
    /\ LET next == on_write_error(pc[t])
       IN /\ pc' = [pc EXCEPT ![t] = next]
          /\ IF next = "Failed"
             THEN /\ ret' = [ret EXCEPT ![t] =
                       write_error_return(ErrRet("Write", req[t].file_id))]
                  /\ paths_tried' = paths_tried
             ELSE /\ ret' = ret
                  /\ paths_tried' = [paths_tried EXCEPT ![t] = Append(@, next)]
    /\ wtrace' = [wtrace EXCEPT ![t] = Append(@, "write_err")]
    /\ UNCHANGED <<store, meta_cache, used, file_metas, req, sst_info,
                   inflight, deletes, put_log>>
    /\ UNCHANGED <<tempvars, fsvars, sumvars>>

\* The task resumes after a successful write: it puts the parquet metadata
\* (if any) to the cache manager and returns Ok(sst_info).  The cache manager
\* either stores the entry or drops it; write_sst observes neither.
WriteSstFinish(t, stored) ==
    /\ pc[t] = "Written"
    /\ LET r == req[t]
           puts == cache_puts(r.region_id, r.file_id, sst_info[t])
       IN /\ put_log' = [put_log EXCEPT ![t] = puts]
          /\ meta_cache' = put_parquet_meta_data(meta_cache, puts, stored)
          /\ wtrace' = [wtrace EXCEPT ![t] =
                           IF puts # {} THEN Append(@, "put") ELSE @]
          /\ ret' = [ret EXCEPT ![t] = write_sst_return(sst_info[t], stored)]
          /\ pc' = [pc EXCEPT ![t] =
                       IF ret'[t].tag = "Err" THEN "Failed"
                       ELSE IF ret'[t].val.some THEN "Committed"
                       ELSE "EmptyNoOp"]
    /\ UNCHANGED <<store, used, file_metas, req, sst_info, inflight, deletes,
                   paths_tried>>
    /\ UNCHANGED <<tempvars, fsvars, sumvars>>

----------------------------------------------------------------------------
\* AccessLayer::delete_sst

SeqRange(s) == {s[i] : i \in 1..Len(s)}

Events(ev, paths) == [i \in 1..Len(paths) |-> [ev |-> ev, path |-> paths[i]]]

\* Mutant: both deletes are issued together (a join of the two futures).
first_deletes_joined(file_meta) ==
    IF file_meta.inverted_index_available
    THEN <<sst_file_path(region_dir, file_meta.file_id),
           index_file_path(region_dir, file_meta.file_id)>>
    ELSE <<sst_file_path(region_dir, file_meta.file_id)>>

\* Mutant: the first step deletes the index of a file that has one.
first_deletes_index(file_meta) ==
    IF file_meta.inverted_index_available
    THEN <<index_file_path(region_dir, file_meta.file_id)>>
    ELSE <<sst_file_path(region_dir, file_meta.file_id)>>

\* Mutant: the first step deletes the SST of the region's lowest FileId.
first_deletes_lowest_file(file_meta) ==
    <<sst_file_path(region_dir,
        CHOOSE f \in FileIds :
            /\ \E m \in file_metas : m.file_id = f
            /\ \A m \in file_metas : f <= m.file_id)>>

\* First step: `self.object_store.delete(&sst_file_path).await`.
first_deletes(file_meta) == <<sst_file_path(region_dir, file_meta.file_id)>>

\* Second step, issued once the first delete has returned Ok:
\* `if file_meta.inverted_index_available() { delete(&index_file_path) }`.
second_deletes(file_meta) ==
    IF file_meta.inverted_index_available
    THEN <<index_file_path(region_dir, file_meta.file_id)>>
    ELSE <<>>

\* Mutant: best effort, the index delete is attempted after a failed SST
\* delete.
deletes_after_sst_error_continue(file_meta) ==
    IF file_meta.inverted_index_available
    THEN <<index_file_path(region_dir, file_meta.file_id)>>
    ELSE <<>>

\* `.context(DeleteSstSnafu { file_id })?`: a failed first delete returns;
\* no further delete is issued.
deletes_after_sst_error(file_meta) == <<>>

\* DeleteSstSnafu { file_id }
sst_delete_error(file_id) == ErrRet("DeleteSst", file_id)

\* Mutant: the second step reuses the first step's error context.
index_delete_error_as_sst(file_id) == ErrRet("DeleteSst", file_id)

\* DeleteIndexSnafu { file_id }
index_delete_error(file_id) == ErrRet("DeleteIndex", file_id)

\* A task working on `file_id` (a FileMeta is purged by one task at a time).
Busy(file_id) == \E t \in Tasks : pc[t] # "Idle" /\ req[t].file_id = file_id

\* A caller passes the FileMeta of a committed SST; the call issues its
\* first store delete and suspends on it.
DeleteSstStart(t, file_meta) ==
    /\ LowestIdle(t)
    /\ file_meta \in file_metas
    /\ ~Busy(file_meta.file_id)
    /\ LET first == first_deletes(file_meta)
       IN /\ inflight' = [inflight EXCEPT ![t] = SeqRange(first)]
          /\ deletes' = [deletes EXCEPT ![t] = Events("issue", first)]
    /\ req' = [req EXCEPT ![t] =
          [op |-> "delete_sst", file_id |-> file_meta.file_id,
           region_id |-> file_meta.region_id, has_rows |-> FALSE,
           write_cache |-> FALSE,
           inverted_index_available |-> file_meta.inverted_index_available,
           had_sst |-> sst_file_path(region_dir, file_meta.file_id) \in store,
           had_idx |-> index_file_path(region_dir, file_meta.file_id) \in store]]
    /\ pc' = [pc EXCEPT ![t] = "DeleteSst"]
    /\ ret' = [ret EXCEPT ![t] = NoRet]
    /\ UNCHANGED <<store, meta_cache, used, file_metas, sst_info, paths_tried,
                   wtrace, put_log>>
    /\ UNCHANGED <<tempvars, fsvars, sumvars>>

\* The first delete returns Ok: the path is gone from the store; the call
\* issues the second step's delete, or returns Ok(()) if there is none.
FirstDeleteOk(t) ==
    /\ pc[t] = "DeleteSst"
    /\ \E p \in inflight[t] :
        LET second == second_deletes(req[t])
            left == (inflight[t] \ {p}) \cup SeqRange(second)
        IN /\ store' = store \ {p}
           /\ inflight' = [inflight EXCEPT ![t] = left]
           /\ deletes' = [deletes EXCEPT ![t] =
                  Append(@, [ev |-> "ok", path |-> p]) \o Events("issue", second)]
           /\ pc' = [pc EXCEPT ![t] =
                        IF left = {} THEN "Deleted" ELSE "DeleteIndex"]
           /\ ret' = [ret EXCEPT ![t] =
                         IF left = {} THEN OkRet(NoSstInfo) ELSE NoRet]
    /\ UNCHANGED <<meta_cache, used, file_metas, req, sst_info, paths_tried,
                   wtrace, put_log>>
    /\ UNCHANGED <<tempvars, fsvars, sumvars>>

\* The first delete fails: the store is unchanged and the call returns the
\* DeleteSst error.
FirstDeleteFail(t) ==
    /\ pc[t] = "DeleteSst"
    /\ \E p \in inflight[t] :
        LET more == deletes_after_sst_error(req[t])
        IN /\ deletes' = [deletes EXCEPT ![t] =
                  Append(@, [ev |-> "err", path |-> p]) \o Events("issue", more)]
           /\ IF more = <<>>
              THEN /\ inflight' = [inflight EXCEPT ![t] = {}]
                   /\ pc' = [pc EXCEPT ![t] = "DeleteFailed"]
                   /\ ret' = [ret EXCEPT ![t] =
                                 sst_delete_error(req[t].file_id)]
              ELSE /\ inflight' = [inflight EXCEPT ![t] =
                                      (@ \ {p}) \cup SeqRange(more)]
                   /\ pc' = [pc EXCEPT ![t] = "DeleteIndex"]
                   /\ ret' = ret
    /\ UNCHANGED <<store, meta_cache, used, file_metas, req, sst_info,
                   paths_tried, wtrace, put_log>>
    /\ UNCHANGED <<tempvars, fsvars, sumvars>>

\* The second delete returns Ok: the index path is gone; Ok(()) is returned.
SecondDeleteOk(t) ==
    /\ pc[t] = "DeleteIndex"
    /\ \E p \in inflight[t] :
        /\ store' = store \ {p}
        /\ inflight' = [inflight EXCEPT ![t] = @ \ {p}]
        /\ deletes' = [deletes EXCEPT ![t] = Append(@, [ev |-> "ok", path |-> p])]
        /\ pc' = [pc EXCEPT ![t] =
                     IF inflight'[t] = {} THEN "Deleted" ELSE "DeleteIndex"]
        /\ ret' = [ret EXCEPT ![t] =
                      IF inflight'[t] = {} THEN OkRet(NoSstInfo) ELSE NoRet]
    /\ UNCHANGED <<meta_cache, used, file_metas, req, sst_info, paths_tried,
                   wtrace, put_log>>
    /\ UNCHANGED <<tempvars, fsvars, sumvars>>

\* The second delete fails: the store is unchanged and the call returns the
\* DeleteIndex error.
SecondDeleteFail(t) ==
    /\ pc[t] = "DeleteIndex"
    /\ \E p \in inflight[t] :
        /\ deletes' = [deletes EXCEPT ![t] = Append(@, [ev |-> "err", path |-> p])]
    /\ inflight' = [inflight EXCEPT ![t] = {}]
    /\ pc' = [pc EXCEPT ![t] = "DeleteFailed"]
    /\ ret' = [ret EXCEPT ![t] = index_delete_error(req[t].file_id)]
    /\ UNCHANGED <<store, meta_cache, used, file_metas, req, sst_info,
                   paths_tried, wtrace, put_log>>
    /\ UNCHANGED <<tempvars, fsvars, sumvars>>

----------------------------------------------------------------------------
\* Callers

Suspended == {"DelegatedToCache", "DirectWrite", "Written",
              "DeleteSst", "DeleteIndex"}

Terminal == {"Committed", "EmptyNoOp", "Failed",
             "Deleted", "DeleteFailed", "Cancelled"}

\* The task is cancelled while suspended at an await: the store operation in
\* flight is abandoned and nothing is rolled back.
Cancel(t) ==
    /\ pc[t] \in Suspended
    /\ pc' = [pc EXCEPT ![t] = "Cancelled"]
    /\ inflight' = [inflight EXCEPT ![t] = {}]
    /\ UNCHANGED <<store, meta_cache, used, file_metas, req, sst_info, ret,
                   deletes, paths_tried, wtrace, put_log>>
    /\ UNCHANGED <<tempvars, fsvars, sumvars>>

\* The caller takes the outcome: a committed write makes the file's FileMeta
\* (constructed at write-completion time), a completed delete retires it.
Return(t) ==
    /\ pc[t] \in Terminal
    /\ file_metas' =
          IF pc[t] = "Committed"
          THEN file_metas \cup {FileMeta(req[t].file_id, req[t].region_id,
                                   ret[t].val.inverted_index_available)}
          ELSE IF pc[t] = "Deleted"
          THEN {m \in file_metas : m.file_id # req[t].file_id}
          ELSE file_metas
    /\ pc' = [pc EXCEPT ![t] = "Idle"]
    /\ req' = [req EXCEPT ![t] = NoReq]
    /\ sst_info' = [sst_info EXCEPT ![t] = NoSstInfo]
    /\ ret' = [ret EXCEPT ![t] = NoRet]
    /\ inflight' = [inflight EXCEPT ![t] = {}]
    /\ deletes' = [deletes EXCEPT ![t] = <<>>]
    /\ paths_tried' = [paths_tried EXCEPT ![t] = <<>>]
    /\ wtrace' = [wtrace EXCEPT ![t] = <<>>]
    /\ put_log' = [put_log EXCEPT ![t] = {}]
    /\ UNCHANGED <<store, meta_cache, used>>
    /\ UNCHANGED <<tempvars, fsvars, sumvars>>

Next ==
    \/ \E t \in Tasks, r \in RegionIds, rows \in BOOLEAN, wc \in BOOLEAN :
          WriteSstStart(t, r, rows, wc)
    \/ \E t \in Tasks, md \in BOOLEAN, idx \in BOOLEAN :
          UnderlyingWriteOk(t, md, idx)
    \/ \E t \in Tasks : UnderlyingWriteFail(t)
    \/ \E t \in Tasks, stored \in BOOLEAN : WriteSstFinish(t, stored)
    \/ \E t \in Tasks, m \in file_metas : DeleteSstStart(t, m)
    \/ \E t \in Tasks : FirstDeleteOk(t)
    \/ \E t \in Tasks : FirstDeleteFail(t)
    \/ \E t \in Tasks : SecondDeleteOk(t)
    \/ \E t \in Tasks : SecondDeleteFail(t)
    \/ \E t \in Tasks : Cancel(t)
    \/ \E t \in Tasks : Return(t)

Spec == Init /\ [][Next]_vars

----------------------------------------------------------------------------
\* Properties of delete_sst

SstPath(t) == sst_file_path(region_dir, req[t].file_id)
IndexPath(t) == index_file_path(region_dir, req[t].file_id)

Deleting(t) == req[t].op = "delete_sst"
Writing(t) == req[t].op = "write_sst"

\* The paths of the store deletes the current call of t has issued, in order.
Issued(t) ==
    LET iss == SelectSeq(deletes[t], LAMBDA e : e.ev = "issue")
    IN [i \in 1..Len(iss) |-> iss[i].path]

HasEvent(t, ev, path) ==
    \E i \in 1..Len(deletes[t]) : deletes[t][i] = [ev |-> ev, path |-> path]

IsPrefix(a, b) == Len(a) <= Len(b) /\ \A i \in 1..Len(a) : a[i] = b[i]

\* C1: delete_sst issues its store deletes in a fixed total order: the SST
\* path alone when inverted_index_available is false, the SST path and then
\* the index path when it is true; the index delete is issued only after the
\* SST delete has completed with success, at most one delete is in flight at
\* any time, and the index path is never deleted when the flag is false.
C1_DeleteOrder ==
    \A t \in Tasks : Deleting(t) =>
        LET expected == IF req[t].inverted_index_available
                        THEN <<SstPath(t), IndexPath(t)>>
                        ELSE <<SstPath(t)>>
        IN /\ Cardinality(inflight[t]) <= 1
           /\ IsPrefix(Issued(t), expected)
           /\ pc[t] = "Deleted" => Issued(t) = expected
           /\ \A i \in 1..Len(deletes[t]) :
                 deletes[t][i] = [ev |-> "issue", path |-> IndexPath(t)] =>
                     \E j \in 1..(i - 1) :
                         deletes[t][j] = [ev |-> "ok", path |-> SstPath(t)]
           /\ ~req[t].inverted_index_available =>
                 \A i \in 1..Len(deletes[t]) : deletes[t][i].path # IndexPath(t)

\* A delete_sst call on a file with an index has completed both deletes.
C1_Witness ==
    \E t \in Tasks :
        /\ Deleting(t) /\ pc[t] = "Deleted"
        /\ req[t].inverted_index_available
        /\ Len(deletes[t]) = 4

\* The call of t is a delete_sst on a file whose SST and index both existed
\* when the call started.
DeletingPair(t) == Deleting(t) /\ req[t].had_sst /\ req[t].had_idx

\* C2 as stated: during and after a delete_sst call on a file whose SST and
\* index both exist, the index file being in the store implies the SST file
\* being in the store.
C2_IndexImpliesSst ==
    \A t \in Tasks : DeletingPair(t) =>
        (IndexPath(t) \in store => SstPath(t) \in store)

\* C2 as amended: delete_sst preserves the converse, "SST implies index":
\* during and after a delete_sst call on a file whose SST and index both
\* exist (failed and cancelled calls included), if the SST file is in the
\* store then the index file is in the store too.
C2_SstImpliesIndex ==
    \A t \in Tasks : DeletingPair(t) =>
        (SstPath(t) \in store => IndexPath(t) \in store)

\* A delete_sst call was cancelled between its two steps: the SST is gone
\* and the index is left behind.
C2_Witness ==
    \E t \in Tasks :
        /\ DeletingPair(t) /\ pc[t] = "Cancelled"
        /\ SstPath(t) \notin store /\ IndexPath(t) \in store

\* C9: if the SST delete fails, delete_sst stops there: it returns the
\* DeleteSst error carrying the FileId, issues no delete for the index path
\* (also when inverted_index_available is true) and leaves the index file
\* as it was.
C9_FirstDeleteFailureAborts ==
    \A t \in Tasks :
        (Deleting(t) /\ HasEvent(t, "err", SstPath(t))) =>
            /\ pc[t] = "DeleteFailed"
            /\ ret[t] = [tag |-> "Err", kind |-> "DeleteSst",
                         file_id |-> req[t].file_id, val |-> NoSstInfo]
            /\ \A i \in 1..Len(deletes[t]) : deletes[t][i].path # IndexPath(t)
            /\ (IndexPath(t) \in store) = req[t].had_idx

\* The SST delete of a file that has an index failed.
C9_Witness ==
    \E t \in Tasks :
        /\ Deleting(t) /\ HasEvent(t, "err", SstPath(t))
        /\ req[t].inverted_index_available /\ req[t].had_idx
        /\ pc[t] = "DeleteFailed"

\* C10: if the SST delete succeeds and the index delete fails, delete_sst
\* returns the DeleteIndex error carrying the FileId, a different error
\* kind from DeleteSst; for a file whose SST and index both existed, a
\* DeleteIndex error means the SST is gone and the index is still there,
\* and a DeleteSst error means both are still there.
C10_ErrorTellsWhatRemains ==
    \A t \in Tasks : Deleting(t) =>
        /\ (HasEvent(t, "ok", SstPath(t)) /\ HasEvent(t, "err", IndexPath(t))) =>
              /\ pc[t] = "DeleteFailed"
              /\ ret[t].tag = "Err"
              /\ ret[t].kind = "DeleteIndex"
              /\ ret[t].file_id = req[t].file_id
        /\ (pc[t] = "DeleteFailed" /\ DeletingPair(t)) =>
              /\ ret[t].kind \in {"DeleteSst", "DeleteIndex"}
              /\ ret[t].kind = "DeleteIndex" =>
                    (SstPath(t) \notin store /\ IndexPath(t) \in store)
              /\ ret[t].kind = "DeleteSst" =>
                    (SstPath(t) \in store /\ IndexPath(t) \in store)

\* The index delete failed after the SST delete succeeded.
C10_Witness ==
    \E t \in Tasks :
        /\ DeletingPair(t) /\ pc[t] = "DeleteFailed"
        /\ HasEvent(t, "ok", SstPath(t)) /\ HasEvent(t, "err", IndexPath(t))
        /\ ret[t].kind = "DeleteIndex"

----------------------------------------------------------------------------
\* Properties of write_sst

InTrace(t, ev) == \E i \in 1..Len(wtrace[t]) : wtrace[t][i] = ev

\* The cache manager holds nothing for the FileId of t's call.
NothingCached(t) == \A c \in meta_cache : c.file_id # req[t].file_id

\* C3: within one write_sst call the put to the cache manager comes only
\* after the underlying write has returned success; as long as the write has
\* not completed with success (in flight, failed, or cancelled before it
\* completed) the call has made no put and the cache holds nothing for the
\* FileId.
C3_PutAfterWrite ==
    \A t \in Tasks : Writing(t) =>
        /\ \A i \in 1..Len(wtrace[t]) :
              wtrace[t][i] = "put" =>
                  \E j \in 1..(i - 1) : wtrace[t][j] = "write_ok"
        /\ ~InTrace(t, "write_ok") =>
              (put_log[t] = {} /\ NothingCached(t))

\* One call failed in its write, another committed and made its put.
C3_Witness ==
    \E t, u \in Tasks :
        /\ Writing(t) /\ pc[t] = "Failed" /\ InTrace(t, "write_err")
        /\ Writing(u) /\ pc[u] = "Committed" /\ InTrace(u, "put")
        /\ ~NothingCached(u)

\* The steps a write_sst call may take from each of its states.
WriteSuccessors(state) ==
    CASE state = "Idle" -> {"DelegatedToCache", "DirectWrite", "DeleteSst"}
      [] state \in {"DelegatedToCache", "DirectWrite"} ->
            {"Written", "Failed", "Cancelled"}
      [] state = "Written" -> {"Committed", "EmptyNoOp", "Cancelled"}
      [] state \in {"Committed", "EmptyNoOp", "Failed"} -> {"Idle"}
      [] OTHER -> {"Idle", "DeleteSst", "DeleteIndex", "Deleted",
                   "DeleteFailed", "Cancelled"}

\* C4: a write_sst call goes Requested -> {DelegatedToCache | DirectWrite}
\* -> {Committed | EmptyNoOp | Failed}; the branch is the one the presence of
\* a write cache selects, exactly one write path is entered per call, and a
\* failure of the chosen path ends the call in Failed without the other path
\* being tried.
C4_WriteStateMachine ==
    [][\A t \in Tasks :
          /\ pc'[t] # pc[t] => pc'[t] \in WriteSuccessors(pc[t])
          /\ req'[t].op = "write_sst" =>
                /\ paths_tried'[t] =
                      IF req'[t].write_cache THEN <<"DelegatedToCache">>
                      ELSE <<"DirectWrite">>
                /\ pc'[t] \in {"DelegatedToCache", "DirectWrite"} =>
                      pc'[t] = paths_tried'[t][1]
                /\ InTrace(t, "write_err")' => pc'[t] = "Failed"]_vars

\* A call delegated to the write cache failed and ended in Failed.
C4_Witness ==
    \E t \in Tasks :
        /\ Writing(t) /\ req[t].write_cache /\ pc[t] = "Failed"
        /\ paths_tried[t] = <<"DelegatedToCache">>

C6_WriteFailure ==
    \A t \in Tasks :
        (Writing(t) /\ InTrace(t, "write_err")) =>
            /\ pc[t] = "Failed"
            /\ ret[t] = [tag |-> "Err", kind |-> "Write",
                         file_id |-> req[t].file_id, val |-> NoSstInfo]
            /\ SstPath(t) \notin store
            /\ put_log[t] = {}
            /\ NothingCached(t)

\* A write through the write cache failed partway.
C6_Witness ==
    \E t \in Tasks :
        /\ Writing(t) /\ InTrace(t, "write_err") /\ pc[t] = "Failed"
        /\ req[t].write_cache /\ req[t].has_rows

\* The result of t's call is Some(SstInfo) with file_metadata present.
ReturnedMetadata(t) ==
    /\ Writing(t) /\ pc[t] = "Committed"
    /\ ret[t].val.some /\ ret[t].val.file_metadata.present

\* C7 as stated: after write_sst returns Some(SstInfo) with file_metadata
\* present, the cache manager holds exactly that metadata under (region id,
\* FileId) of the request; when the result is None or has no file_metadata,
\* write_sst made no put.
C7_CacheHoldsMetadata ==
    \A t \in Tasks :
        /\ ReturnedMetadata(t) =>
              CacheGet(meta_cache, req[t].region_id, req[t].file_id) =
                  {[region_id |-> req[t].region_id,
                    file_id |-> req[t].file_id,
                    metadata |-> ret[t].val.file_metadata]}
        /\ (Writing(t) /\ pc[t] \in {"Committed", "EmptyNoOp"}
               /\ ~ReturnedMetadata(t)) => put_log[t] = {}

\* C7 as amended: after write_sst returns Some(SstInfo) with file_metadata
\* present, it has made exactly one put_parquet_meta_data call, carrying
\* exactly that metadata under (region id, FileId) of the request, in both
\* branches; the cache manager holds that metadata under the key unless it
\* dropped the put, and holds nothing else for the FileId; when the result
\* is None or has no file_metadata, write_sst made no put.
C7_PutsMetadata ==
    \A t \in Tasks :
        /\ ReturnedMetadata(t) =>
              LET entry == [region_id |-> req[t].region_id,
                            file_id |-> req[t].file_id,
                            metadata |-> ret[t].val.file_metadata]
              IN /\ put_log[t] = {entry}
                 /\ {c \in meta_cache : c.file_id = req[t].file_id}
                       \subseteq {entry}
        /\ (Writing(t) /\ pc[t] \in {"Committed", "EmptyNoOp"}
               /\ ~ReturnedMetadata(t)) =>
              (put_log[t] = {} /\ NothingCached(t))

\* Two calls returned metadata, one per branch, and the cache manager holds
\* the entry of the one and dropped the entry of the other.
C7_Witness ==
    \E t, u \in Tasks :
        /\ ReturnedMetadata(t) /\ req[t].write_cache /\ ~NothingCached(t)
        /\ ReturnedMetadata(u) /\ ~req[u].write_cache /\ NothingCached(u)

\* C8: whenever the underlying write succeeded, write_sst returns Ok with
\* exactly the underlying writer's result, whether the cache manager stored
\* or dropped the metadata; a committed write never ends in Failed.
C8_PutDoesNotPropagate ==
    \A t \in Tasks :
        (Writing(t) /\ InTrace(t, "write_ok")
            /\ pc[t] \in Terminal \ {"Cancelled"}) =>
            /\ pc[t] \in {"Committed", "EmptyNoOp"}
            /\ ret[t] = [tag |-> "Ok", kind |-> "", file_id |-> 0,
                         val |-> sst_info[t]]

\* A call committed although the cache manager dropped its put.
C8_Witness ==
    \E t \in Tasks :
        /\ Writing(t) /\ pc[t] = "Committed"
        /\ put_log[t] # {} /\ NothingCached(t)
        /\ ret[t].val = sst_info[t]

----------------------------------------------------------------------------
\* Properties of concurrent write_sst calls

\* C11 as stated: a task running beside a write_sst call sees only the state
\* before the write or the state of its terminal outcome: as long as the
\* call has not reached its outcome, no file is addressable at its SST path
\* and the cache manager holds nothing for its FileId.
C11_NoIntermediateState ==
    \A t \in Tasks :
        (Writing(t) /\ pc[t] \notin Terminal) =>
            (SstPath(t) \notin store /\ NothingCached(t))

\* C11 as amended: one in-between state is observable, the SST file
\* addressable while its metadata is not yet in the cache manager (after the
\* underlying write completed, before the put).  Nothing else is: while the
\* underlying write is in flight neither the files nor the metadata are
\* visible, and the metadata is in the cache manager only once its file is
\* addressable and the call has committed.
C11_FileBeforeMetadata ==
    \A t \in Tasks : Writing(t) =>
        /\ pc[t] \in {"DelegatedToCache", "DirectWrite"} =>
              /\ SstPath(t) \notin store
              /\ IndexPath(t) \notin store
              /\ NothingCached(t)
        /\ pc[t] = "Written" => NothingCached(t)
        /\ ~NothingCached(t) =>
              (SstPath(t) \in store /\ pc[t] = "Committed")

\* The underlying write of a call has completed, its file is addressable and
\* its metadata is not in the cache manager, while another call is running.
C11_Witness ==
    \E t, u \in Tasks :
        /\ Writing(t) /\ pc[t] = "Written"
        /\ sst_info[t].file_metadata.present
        /\ SstPath(t) \in store /\ NothingCached(t)
        /\ u # t /\ pc[u] \notin Terminal \cup {"Idle"}

\* C18 as stated: once all concurrent write_sst calls have returned, the
\* cache manager holds the metadata of every call that committed with file
\* metadata present, under that call's (region id, FileId).
C18_AllCommittedCached ==
    (\A t \in Tasks : pc[t] \in Terminal) =>
        \A t \in Tasks :
            ReturnedMetadata(t) =>
                [region_id |-> req[t].region_id, file_id |-> req[t].file_id,
                 metadata |-> ret[t].val.file_metadata] \in meta_cache

\* C18 as amended: the puts of concurrent write_sst calls are additive.  No
\* step removes or replaces an entry the cache manager holds, and the step
\* that commits a call adds at most that call's own entry, keyed by its own
\* (region id, FileId): every put the cache manager stored is still there
\* once all calls have returned (a put it dropped is not).
C18_NoLostUpdate ==
    [][/\ meta_cache \subseteq meta_cache'
       /\ \A t \in Tasks :
             (pc[t] = "Written" /\ pc'[t] # "Written") =>
                 meta_cache' \subseteq meta_cache \cup
                     {[region_id |-> req[t].region_id,
                       file_id |-> req[t].file_id,
                       metadata |-> sst_info[t].file_metadata]}]_vars

\* Two concurrent calls with distinct FileIds have both committed and the
\* cache manager holds the metadata of both.
C18_Witness ==
    \E t, u \in Tasks :
        /\ t # u /\ req[t].file_id # req[u].file_id
        /\ req[t].region_id = req[u].region_id
        /\ ReturnedMetadata(t) /\ ~NothingCached(t)
        /\ ReturnedMetadata(u) /\ ~NothingCached(u)

----------------------------------------------------------------------------
\* The paths of a delete_sst call's own file.
OwnPaths(t) == {SstPath(t), IndexPath(t)}

\* C21: every step of a delete_sst call (its start, each delete that
\* returns Ok or fails, its cancellation) removes from the store at most
\* the SST path and the index path of the call's own FileId, adds nothing,
\* and leaves the metadata cache as it was: the files of every other FileId
\* are present after the step exactly when they were before it.
C21_DeleteFrame ==
    [][\A t \in Tasks :
          ((Deleting(t) \/ (pc[t] = "Idle" /\ pc'[t] = "DeleteSst"))
                /\ (pc'[t] # pc[t] \/ deletes'[t] # deletes[t])) =>
              /\ store' \subseteq store
              /\ store \ store' \subseteq
                    {sst_file_path(region_dir, req'[t].file_id),
                     index_file_path(region_dir, req'[t].file_id)}
              /\ meta_cache' = meta_cache]_vars

\* A delete_sst call removed both files of its FileId while the files and
\* the cached metadata of another FileId stayed.
C21_Witness ==
    \E t \in Tasks :
        /\ Deleting(t)
        /\ pc[t] = "Deleted"
        /\ DeletingPair(t)
        /\ OwnPaths(t) \cap store = {}
        /\ \E f \in FileIds :
              /\ f # req[t].file_id
              /\ sst_file_path(region_dir, f) \in store
              /\ index_file_path(region_dir, f) \in store
              /\ \E c \in meta_cache : c.file_id = f

----------------------------------------------------------------------------
\* TempFileProvider: the scratch files of one index build

\* Bounds of the temp file provider model.
MaxCreates == 2
MaxOpen == 1

Columns == {1, 2}
RunIds == {1, 2}
\* Columns below which the backend may show a directory marker.
MarkedColumns == {1}
\* Byte strings a writer is given.
Payloads == {<<1, 2>>, <<2, 1>>}

\* The scratch files and directory markers below `prefix`.
FilesUnder(prefix) == {f \in scratch : IsUnder(f.path, prefix)}
DirsUnder(prefix) == {d \in dir_entries : IsUnder(d, prefix)}

\* store.list(prefix): the direct children of `prefix`; a child is a file,
\* a directory marker, or the directory of something deeper.
List(prefix) ==
    LET n == Len(prefix) + 1
        deeper == {f.path : f \in FilesUnder(prefix)} \cup DirsUnder(prefix)
    IN  {[path |-> f.path, is_dir |-> FALSE] :
            f \in {g \in FilesUnder(prefix) : Len(g.path) = n}}
        \cup {[path |-> SubSeq(q, 1, n), is_dir |-> TRUE] :
                q \in {d \in deeper : Len(d) > n}}
        \cup {[path |-> d, is_dir |-> TRUE] :
                d \in {e \in DirsUnder(prefix) : Len(e) = n}}

\* The content a reader opened on `path` yields.
ContentAt(path) == (CHOOSE f \in scratch : f.path = path).data

create_path_swapped(column_id, file_id) == file_path(file_id, column_id)

\* create: let path = self.location.file_path(column_id, file_id)
create_path(column_id, file_id) == file_path(column_id, file_id)

read_all_entries_recursive(column_id) ==
    {[path |-> f.path, is_dir |-> FALSE] : f \in scratch}

\* read_all: store.list(&column_path)
read_all_entries(column_id) == List(column_path(column_id))

entries_to_open_all(entries) == entries

\* read_all: entries that are directories are skipped with a warning.
entries_to_open(entries) == {e \in entries : ~e.is_dir}

readers_on_error_partial(readers) == readers

\* read_all: `?` on a failed reader drops the readers opened so far.
readers_on_error(readers) == <<>>

read_all_waits_for_writers(column_id) ==
    {w \in writers : w.column = column_id}

\* read_all awaits nothing but the store: no writer holds it back.
read_all_waits_for(column_id) == {}

cleanup_target_first_column == column_path(1)

\* cleanup: self.store.remove_all(self.location.root_path())
cleanup_target == root_path

\* The next entry read_all opens: entries are taken in listing order, here
\* ascending by the last path component.
NextEntry(todo) ==
    CHOOSE e \in todo :
        \A o \in todo : e.path[Len(e.path)] <= o.path[Len(o.path)]

\* A later operation on the scratch tree ends a run of cleanups.
NoCleanup == [last |-> "none", ok_in_a_row |-> 0, purged |-> 0]

\* create(column_id, file_id): opens a writer on the run's path, or fails
\* with an External error when the store rejects the writer.
Create(column_id, file_id, ok) ==
    /\ <<column_id, file_id>> \notin created
    /\ Cardinality(created) < MaxCreates
    /\ Cardinality(writers) < MaxOpen
    /\ \/ /\ ok
          /\ writers' = writers \cup
                {[column |-> column_id, run |-> file_id,
                  path |-> create_path(column_id, file_id),
                  buf |-> <<>>, flushed |-> FALSE]}
          /\ created' = created \cup {<<column_id, file_id>>}
          /\ cl' = NoCleanup
       \/ /\ ~ok
          /\ UNCHANGED <<writers, created, cl>>
    /\ UNCHANGED <<scratch, dir_entries, closed_runs, rd>>
    /\ UNCHANGED <<accessvars, fsvars, sumvars>>

\* writer.write_all(payload)
Write(w, payload) ==
    /\ w \in writers
    /\ w.buf = <<>>
    /\ writers' = (writers \ {w}) \cup {[w EXCEPT !.buf = w.buf \o payload]}
    /\ UNCHANGED <<scratch, dir_entries, created, closed_runs, rd, cl>>
    /\ UNCHANGED <<accessvars, fsvars, sumvars>>

\* writer.flush()
Flush(w) ==
    /\ w \in writers
    /\ w.buf # <<>>
    /\ ~w.flushed
    /\ writers' = (writers \ {w}) \cup {[w EXCEPT !.flushed = TRUE]}
    /\ UNCHANGED <<scratch, dir_entries, created, closed_runs, rd, cl>>
    /\ UNCHANGED <<accessvars, fsvars, sumvars>>

\* writer.close(): the file becomes an entry of the store with the bytes
\* written.
Close(w) ==
    /\ w \in writers
    /\ writers' = writers \ {w}
    /\ scratch' = {f \in scratch : f.path # w.path}
                    \cup {[path |-> w.path, data |-> w.buf]}
    /\ closed_runs' = closed_runs \cup
            {[column |-> w.column, run |-> w.run, path |-> w.path,
              data |-> w.buf, flushed |-> w.flushed]}
    /\ cl' = NoCleanup
    /\ UNCHANGED <<dir_entries, created, rd>>
    /\ UNCHANGED <<accessvars, fsvars, sumvars>>

\* The backend shows a directory marker below a column's path.
AddDirEntry(column_id) ==
    /\ Append(column_path(column_id), 0) \notin dir_entries
    /\ dir_entries' = dir_entries \cup {Append(column_path(column_id), 0)}
    /\ cl' = NoCleanup
    /\ UNCHANGED <<scratch, writers, created, closed_runs, rd>>
    /\ UNCHANGED <<accessvars, fsvars, sumvars>>

\* read_all(column_id) is called.
ReadAllStart(column_id) ==
    /\ rd.pc = "Idle"
    /\ rd' = [NoRead EXCEPT
                !.pc = "Listing",
                !.column = column_id,
                !.closed_at_start = closed_runs]
    /\ UNCHANGED <<scratch, dir_entries, writers, created, closed_runs, cl>>
    /\ UNCHANGED <<accessvars, fsvars, sumvars>>

\* read_all: store.list(&column_path).await, `?` on its failure; a listing
\* with nothing to open returns Ok(readers) at once.
ReadAllList(ok) ==
    /\ rd.pc = "Listing"
    /\ read_all_waits_for(rd.column) = {}
    /\ IF ok
       THEN LET entries == read_all_entries(rd.column)
                todo == entries_to_open(entries)
            IN  rd' = [rd EXCEPT
                        !.listed = entries,
                        !.todo = todo,
                        !.pc = IF todo = {} THEN "Done" ELSE "Opening",
                        !.ret = IF todo = {} THEN "Ok" ELSE "none"]
       ELSE rd' = [rd EXCEPT !.pc = "Failed", !.ret = "External"]
    /\ UNCHANGED <<scratch, dir_entries, writers, created, closed_runs, cl>>
    /\ UNCHANGED <<accessvars, fsvars, sumvars>>

\* read_all: store.reader(entry.path()).await succeeds; after the last
\* entry, Ok(readers).
OpenReaderOk ==
    /\ rd.pc = "Opening"
    /\ LET e == NextEntry(rd.todo)
           readers == Append(rd.readers,
                             [path |-> e.path, content |-> ContentAt(e.path)])
           todo == rd.todo \ {e}
       IN  /\ ~e.is_dir
           /\ \E f \in scratch : f.path = e.path
           /\ rd' = [rd EXCEPT
                        !.readers = readers,
                        !.todo = todo,
                        !.pc = IF todo = {} THEN "Done" ELSE "Opening",
                        !.ret = IF todo = {} THEN "Ok" ELSE "none",
                        !.returned = IF todo = {} THEN readers ELSE <<>>]
    /\ UNCHANGED <<scratch, dir_entries, writers, created, closed_runs, cl>>
    /\ UNCHANGED <<accessvars, fsvars, sumvars>>

\* read_all: store.reader(entry.path()).await fails, `?` returns the error.
OpenReaderFail ==
    /\ rd.pc = "Opening"
    /\ rd' = [rd EXCEPT
                !.pc = "Failed",
                !.ret = "External",
                !.returned = readers_on_error(rd.readers)]
    /\ UNCHANGED <<scratch, dir_entries, writers, created, closed_runs, cl>>
    /\ UNCHANGED <<accessvars, fsvars, sumvars>>

\* The caller takes the result of read_all.
ReadAllReturn ==
    /\ rd.pc \in {"Done", "Failed"}
    /\ rd' = NoRead
    /\ UNCHANGED <<scratch, dir_entries, writers, created, closed_runs, cl>>
    /\ UNCHANGED <<accessvars, fsvars, sumvars>>

\* cleanup(): store.remove_all(root_path); its result is the call's result.
\* The build calls it when no read_all is running.
Cleanup(ok) ==
    /\ rd.pc = "Idle"
    /\ IF ok
       THEN /\ scratch' = scratch \ FilesUnder(cleanup_target)
            /\ dir_entries' = dir_entries \ DirsUnder(cleanup_target)
            /\ closed_runs' = {k \in closed_runs :
                                 ~IsUnder(k.path, cleanup_target)}
            /\ cl' = [last |-> "ok",
                      ok_in_a_row |-> IF cl.ok_in_a_row < 2
                                      THEN cl.ok_in_a_row + 1 ELSE 2,
                      purged |-> IF cl.ok_in_a_row = 0
                                 THEN Cardinality(FilesUnder(cleanup_target))
                                 ELSE cl.purged]
       ELSE /\ cl' = [NoCleanup EXCEPT !.last = "err"]
            /\ UNCHANGED <<scratch, dir_entries, closed_runs>>
    /\ UNCHANGED <<writers, created, rd>>
    /\ UNCHANGED <<accessvars, fsvars, sumvars>>

TempNext ==
    \/ \E c \in Columns, r \in RunIds, ok \in BOOLEAN : Create(c, r, ok)
    \/ \E w \in writers, b \in Payloads : Write(w, b)
    \/ \E w \in writers : Flush(w)
    \/ \E w \in writers : Close(w)
    \/ \E c \in MarkedColumns : AddDirEntry(c)
    \/ \E c \in Columns : ReadAllStart(c)
    \/ \E ok \in BOOLEAN : ReadAllList(ok)
    \/ OpenReaderOk
    \/ OpenReaderFail
    \/ ReadAllReturn
    \/ \E ok \in BOOLEAN : Cleanup(ok)

SpecTemp == Init /\ [][TempNext]_vars

----------------------------------------------------------------------------
\* Properties of the temp file provider

\* The read handles the finished read_all call gave its caller.
Returned == {rd.returned[i] : i \in 1..Len(rd.returned)}

\* The runs of the column being read that were closed when read_all began.
ClosedBefore == {k \in rd.closed_at_start : k.column = rd.column}

\* C12: a run of a column that was created, written with a non-empty byte
\* string, flushed and closed before read_all of that column began is
\* returned by it as a read handle whose content is exactly those bytes.
C12_RoundTrip ==
    rd.pc = "Done" =>
        \A k \in ClosedBefore :
            k.data # <<>> =>
                \E h \in Returned : h.path = k.path /\ h.content = k.data

C12_Witness ==
    /\ rd.pc = "Done"
    /\ \E k, l \in ClosedBefore :
          /\ k.flushed /\ l.flushed
          /\ k.data = <<1, 2>> /\ l.data = <<2, 1>>
          /\ \E h, g \in Returned :
                /\ h.path = k.path /\ h.content = <<1, 2>>
                /\ g.path = l.path /\ g.content = <<2, 1>>

\* The read handles read_all holds or has returned.
Handles == {rd.readers[i] : i \in 1..Len(rd.readers)} \cup Returned

\* C13: read_all of a column never holds or returns a handle to a run that
\* was created under another column, also when both columns have a run of
\* the same run id.
C13_ColumnIsolation ==
    \A h \in Handles :
        \A k \in closed_runs :
            k.path = h.path => k.column = rd.column

C13_Witness ==
    /\ rd.pc = "Done"
    /\ \E k, l \in rd.closed_at_start :
          /\ k.column = rd.column
          /\ l.column # rd.column
          /\ l.run = k.run
          /\ \E h \in Returned : h.path = k.path
          /\ \A h \in Returned : h.path # l.path

\* The paths of the entries listed that are not directories.
ListedFiles == {e.path : e \in {l \in rd.listed : ~l.is_dir}}

\* The runs of the column being read that are closed now.
ClosedNow == {k \in closed_runs : k.column = rd.column}

\* C14: a read_all that returns gives exactly one handle for each entry
\* listed that is not a directory, as many as the column has closed runs; a
\* directory entry is never opened and does not stop the call, which can go
\* on whenever the store answers; a column with no runs gives the empty
\* sequence with Ok.
C14_OneHandlePerFile ==
    /\ \A e \in rd.todo : ~e.is_dir
    /\ rd.pc = "Opening" => ENABLED OpenReaderOk
    /\ rd.pc = "Done" =>
          /\ rd.ret = "Ok"
          /\ {h.path : h \in Returned} = ListedFiles
          /\ Len(rd.returned) = Cardinality(ListedFiles)
          /\ Cardinality(ClosedBefore) <= Len(rd.returned)
          /\ Len(rd.returned) <= Cardinality(ClosedNow)
          /\ ListedFiles = {} => rd.returned = <<>>

C14_Witness ==
    /\ rd.pc = "Done"
    /\ rd.ret = "Ok"
    /\ \E e \in rd.listed : e.is_dir
    /\ Len(rd.returned) = 2
    /\ Cardinality(ClosedBefore) = 2

\* C15: after a cleanup that succeeded, and until the build creates or
\* closes something again, listing the build's root gives nothing: after
\* the first cleanup, after a second one in a row, and after a cleanup of a
\* build that never created anything.
C15_CleanupEmptiesRoot ==
    cl.last = "ok" =>
        /\ List(root_path) = {}
        /\ scratch = {}
        /\ dir_entries = {}

C15_Witness ==
    /\ cl.last = "ok"
    /\ cl.ok_in_a_row = 2
    /\ cl.purged = 2
    /\ dir_entries = {}
    /\ created # {}

\* The writers of the column being read that are still open.
OpenWriters == {w \in writers : w.column = rd.column}

\* C19: read_all is not fenced against create: with writers of the column
\* open it can still list and open readers (it neither waits nor must
\* fail), and what it is sure to return is every run of the column whose
\* writer was closed before it began.
C19_NoFencing ==
    /\ rd.pc = "Listing" => ENABLED ReadAllList(TRUE)
    /\ rd.pc = "Opening" => ENABLED OpenReaderOk
    /\ rd.pc = "Done" =>
          \A k \in ClosedBefore : \E h \in Returned : h.path = k.path

\* A read_all that returned Ok without the run of a writer still open.
C19_Witness ==
    /\ rd.pc = "Done"
    /\ rd.ret = "Ok"
    /\ Returned # {}
    /\ \E w \in OpenWriters :
          /\ w.buf # <<>>
          /\ \A h \in Returned : h.path # w.path

\* C20: a read_all whose listing or one of whose reader opens failed
\* returns an External error and no handle, the handles opened before the
\* failure included; handles are returned only with Ok, when every listed
\* entry that is not a directory was opened.
C20_AllOrNothing ==
    /\ rd.pc = "Failed" =>
          /\ rd.ret = "External"
          /\ rd.returned = <<>>
    /\ rd.ret = "External" => rd.pc = "Failed"
    /\ rd.returned # <<>> =>
          /\ rd.pc = "Done"
          /\ rd.ret = "Ok"
          /\ rd.todo = {}
          /\ ListedFiles = {rd.returned[i].path : i \in 1..Len(rd.returned)}

\* A reader failed after another was opened.
C20_Witness ==
    /\ rd.pc = "Failed"
    /\ rd.ret = "External"
    /\ Len(rd.readers) = 1
    /\ Cardinality(ListedFiles) = 2
    /\ rd.returned = <<>>

----------------------------------------------------------------------------
\* new_fs_object_store: provisioning of the local filesystem store

\* Bound of the filesystem model: the files ever written.
MaxFsFiles == 2

FsNames == 1..MaxFsFiles

atomic_write_dir_is_root(root) == root

\* let atomic_write_dir = join_dir(root, ".tmp/")
atomic_write_dir(root) == join_dir(root, ".tmp/")

clean_dir_removes_always(exists) == TRUE

\* clean_dir: remove_dir_all runs only if try_exists answered true.
clean_dir_removes(exists) == exists

\* The files below directory `dir`.
FsUnder(dir) == {f \in fs_files : IsUnder(f.dir, dir)}

\* new_fs_object_store(root) is called: after a crash, after a failed call,
\* or again on a running process, whose store and writes are given up.
ProvisionStart ==
    /\ fs.phase \in {"down", "failed", "up"}
    /\ fs' = [fs EXCEPT
                !.phase = "try_exists",
                !.exists = FALSE,
                !.ret = "none",
                !.fault = FALSE,
                !.writes = {},
                !.fresh = FALSE,
                !.staged_before = FsUnder(atomic_write_dir(fs_root)),
                !.committed_before =
                    fs_files \ FsUnder(join_dir(fs_root, ".tmp/"))]
    /\ UNCHANGED <<fs_files, fs_dirs>>
    /\ UNCHANGED <<accessvars, tempvars, sumvars>>

\* clean_dir: tokio::fs::try_exists(dir).await, `?` on its failure; without
\* the directory clean_dir is done.
TryExists(ok) ==
    /\ fs.phase = "try_exists"
    /\ IF ok
       THEN LET exists == atomic_write_dir(fs_root) \in fs_dirs
            IN  fs' = [fs EXCEPT
                        !.exists = exists,
                        !.phase = IF clean_dir_removes(exists)
                                  THEN "remove_dir_all" ELSE "build"]
       ELSE fs' = [fs EXCEPT !.phase = "failed", !.ret = "CleanDir",
                             !.fault = TRUE, !.in_a_row = 0, !.wiped = 0]
    /\ UNCHANGED <<fs_files, fs_dirs>>
    /\ UNCHANGED <<accessvars, tempvars, sumvars>>

\* clean_dir: tokio::fs::remove_dir_all(dir).await, `?` on its failure; it
\* fails on a directory that does not exist.
RemoveDirAll(ok) ==
    /\ fs.phase = "remove_dir_all"
    /\ LET dir == atomic_write_dir(fs_root)
       IN  IF ok /\ dir \in fs_dirs
           THEN /\ fs_files' = fs_files \ FsUnder(dir)
                /\ fs_dirs' = {d \in fs_dirs : ~IsUnder(d, dir)}
                /\ fs' = [fs EXCEPT
                            !.phase = "build",
                            !.wiped = IF fs.in_a_row = 0
                                      THEN Cardinality(FsUnder(dir))
                                      ELSE fs.wiped]
           ELSE /\ fs' = [fs EXCEPT !.phase = "failed", !.ret = "CleanDir",
                                    !.fault = ~ok, !.in_a_row = 0,
                                    !.wiped = 0]
                /\ UNCHANGED <<fs_files, fs_dirs>>
    /\ UNCHANGED <<accessvars, tempvars, sumvars>>

\* ObjectStore::new(builder) with root and atomic_write_dir, `?` on its
\* failure; the store makes both directories. Then Ok(object_store).
Build(ok) ==
    /\ fs.phase = "build"
    /\ IF ok
       THEN /\ fs_dirs' = fs_dirs \cup {fs_root, atomic_write_dir(fs_root)}
            /\ fs' = [fs EXCEPT
                        !.phase = "up",
                        !.ret = "Ok",
                        !.fresh = TRUE,
                        !.in_a_row = IF fs.in_a_row < 2
                                     THEN fs.in_a_row + 1 ELSE 2]
       ELSE /\ fs' = [fs EXCEPT !.phase = "failed", !.ret = "OpenDal",
                                !.fault = TRUE, !.in_a_row = 0, !.wiped = 0]
            /\ UNCHANGED fs_dirs
    /\ UNCHANGED fs_files
    /\ UNCHANGED <<accessvars, tempvars, sumvars>>

\* A write through the store begins: the bytes go to a file in the atomic
\* write directory.
FsWriteBegin(n) ==
    /\ fs.phase = "up"
    /\ n \notin fs.names
    /\ fs_files' = fs_files \cup
            {[dir |-> atomic_write_dir(fs_root), name |-> n]}
    /\ fs' = [fs EXCEPT
                !.writes = fs.writes \cup {n},
                !.names = fs.names \cup {n},
                !.fresh = FALSE,
                !.in_a_row = 0,
                !.wiped = 0]
    /\ UNCHANGED fs_dirs
    /\ UNCHANGED <<accessvars, tempvars, sumvars>>

\* The write completes: the staged file is renamed to its place below root.
FsWriteCommit(n) ==
    /\ fs.phase = "up"
    /\ n \in fs.writes
    /\ fs_files' = (fs_files \ {[dir |-> atomic_write_dir(fs_root), name |-> n]})
                        \cup {[dir |-> fs_root, name |-> n]}
    /\ fs' = [fs EXCEPT !.writes = fs.writes \ {n}]
    /\ UNCHANGED fs_dirs
    /\ UNCHANGED <<accessvars, tempvars, sumvars>>

\* The writing task is cancelled: the staged file stays where it is.
FsWriteCancel(n) ==
    /\ fs.phase = "up"
    /\ n \in fs.writes
    /\ fs' = [fs EXCEPT !.writes = fs.writes \ {n}]
    /\ UNCHANGED <<fs_files, fs_dirs>>
    /\ UNCHANGED <<accessvars, tempvars, sumvars>>

\* The process crashes: the writes in progress leave their staged files.
Crash ==
    /\ fs.phase = "up"
    /\ fs' = [fs EXCEPT !.phase = "down", !.writes = {}]
    /\ UNCHANGED <<fs_files, fs_dirs>>
    /\ UNCHANGED <<accessvars, tempvars, sumvars>>

FsNext ==
    \/ ProvisionStart
    \/ \E ok \in BOOLEAN : TryExists(ok)
    \/ \E ok \in BOOLEAN : RemoveDirAll(ok)
    \/ \E ok \in BOOLEAN : Build(ok)
    \/ \E n \in FsNames : FsWriteBegin(n)
    \/ \E n \in FsNames : FsWriteCommit(n)
    \/ \E n \in FsNames : FsWriteCancel(n)
    \/ Crash

SpecFs == Init /\ [][FsNext]_vars

----------------------------------------------------------------------------
\* Properties of provisioning

\* The files of the staging directory <root>/.tmp/, and the others.
Staged == FsUnder(join_dir(fs_root, ".tmp/"))
Committed == fs_files \ Staged

\* C16: a provisioning call that met no filesystem fault returns Ok,
\* whether the staging directory existed or not; after it no file staged
\* before the call is in the staging directory, which is empty when the call
\* returns, the first time and when provisioning is repeated.
C16_ProvisionRecovers ==
    /\ (fs.phase \in {"up", "failed"} /\ ~fs.fault) =>
          (fs.phase = "up" /\ fs.ret = "Ok")
    /\ fs.phase = "up" => Staged \cap fs.staged_before = {}
    /\ (fs.phase = "up" /\ fs.fresh) => Staged = {}

\* Provisioned twice in a row, the first time over files left in staging.
C16_Witness ==
    /\ fs.phase = "up"
    /\ fs.fresh
    /\ fs.ret = "Ok"
    /\ fs.in_a_row = 2
    /\ fs.wiped = 2
    /\ fs.exists
    /\ Staged = {}

\* C17: from the start of a provisioning call to its return, the files
\* outside <root>/.tmp/ are those that were there before the call.
C17_CommittedKept ==
    /\ fs.committed_before \subseteq Committed
    /\ (fs.phase \in {"try_exists", "remove_dir_all", "build", "failed"}
            \/ fs.fresh) => Committed = fs.committed_before

\* Provisioning wiped a staged file and kept a committed one.
C17_Witness ==
    /\ fs.phase = "up"
    /\ fs.fresh
    /\ fs.wiped = 1
    /\ fs.committed_before # {}
    /\ Committed = fs.committed_before

----------------------------------------------------------------------------
\* MY_SUM: the example aggregate MySumAccumulator

\* Bound of the aggregate model: the update_batch calls of a query.
MaxBatches == 2

\* The numbers of rows of a column.
RowCounts == {1, 2}

\* Option::None in a column.
None == <<>>

\* The values a column of the input type is made of.
InputValues(type) ==
    LET n == NativeLimbs(type)
    IN  {None, One(n), AllOnes(n)}
            \cup (IF Signed(type) THEN {SignedMax(n), SignedMin(n)} ELSE {})

\* The columns handed to update_batch.
InputColumns(type) ==
    UNION {[1..k -> InputValues(type)] : k \in RowCounts}

\* v.into_native().as_(): the value in SumT's native type.
as_(v, type) == Extend(v, Signed(type), WideLimbs)

\* `sum_native += x` on SumT's native type: with overflow checks (a debug
\* build) an overflow panics, without them (a release build) it wraps.
add_assign(acc, x, signed, overflow_checks) ==
    IF acc.panicked THEN acc
    ELSE IF Overflows(acc.sum, x, signed) /\ overflow_checks
         THEN [acc EXCEPT !.panicked = TRUE]
         ELSE [acc EXCEPT !.sum = WrappingAdd(acc.sum, x)]

\* MySumAccumulator::add
add(acc, v, type, overflow_checks) ==
    add_assign(acc, as_(v, type), Signed(type), overflow_checks)

\* MySumAccumulator::merge
merge(acc, s, type, overflow_checks) ==
    add_assign(acc, s, Signed(type), overflow_checks)

\* for v in column.iter_data().flatten() { self.add(v) }
RECURSIVE AddEach(_, _, _, _)
AddEach(acc, column, type, overflow_checks) ==
    IF column = <<>> THEN acc
    ELSE AddEach(IF Head(column) = None THEN acc
                 ELSE add(acc, Head(column), type, overflow_checks),
                 Tail(column), type, overflow_checks)

\* for s in states.iter_data().flatten() { self.merge(s) }
RECURSIVE MergeEach(_, _, _, _)
MergeEach(acc, states, type, overflow_checks) ==
    IF states = <<>> THEN acc
    ELSE MergeEach(IF Head(states) = None THEN acc
                   ELSE merge(acc, Head(states), type, overflow_checks),
                   Tail(states), type, overflow_checks)

\* Accumulator::update_batch(values)
update_batch(acc, values, type, overflow_checks) ==
    IF values = <<>> THEN acc
    ELSE AddEach(acc, values[1], type, overflow_checks)

\* Accumulator::merge_batch(states)
merge_batch(acc, states, type, overflow_checks) ==
    IF states = <<>> THEN acc
    ELSE MergeEach(acc, states[1], type, overflow_checks)

\* Accumulator::evaluate
evaluate(acc) == acc.sum

\* The sum of the integers: the column's values added to `exact` in a type
\* wide enough for every sum of the model.
RECURSIVE ExactSum(_, _, _)
ExactSum(exact, column, type) ==
    IF column = <<>> THEN exact
    ELSE ExactSum(IF Head(column) = None THEN exact
                  ELSE WrappingAdd(exact,
                           Extend(Head(column), Signed(type), ExactLimbs)),
                  Tail(column), type)

\* MySumAccumulatorCreator::creator: an accumulator for a primitive numeric
\* input type, a CreateAccumulator error for any other type. The build has
\* overflow checks or not.
CreateAccumulator(input_type, overflow_checks) ==
    /\ my_sum.pc = "none"
    /\ my_sum' = IF input_type \in LogicalTypes
                 THEN [NoQuery EXCEPT
                        !.pc = "updating",
                        !.input_type = input_type,
                        !.overflow_checks = overflow_checks]
                 ELSE [NoQuery EXCEPT
                        !.pc = "unsupported",
                        !.input_type = input_type]
    /\ UNCHANGED <<accessvars, tempvars, fsvars>>

\* update_batch(values) on partial accumulator p; the same values go to one
\* accumulator that is given every value, and to the exact sum.
UpdateBatch(p, values) ==
    /\ my_sum.pc = "updating"
    /\ values # <<>> => my_sum.batches < MaxBatches
    /\ LET type == my_sum.input_type
           checks == my_sum.overflow_checks
           acc == update_batch(my_sum.partial[p], values, type, checks)
       IN  my_sum' = [my_sum EXCEPT
                !.partial[p] = acc,
                !.whole = update_batch(@, values, type, checks),
                !.exact = IF values = <<>> THEN @
                          ELSE ExactSum(@, values[1], type),
                !.batches = IF values = <<>> THEN @ ELSE @ + 1,
                !.pc = IF acc.panicked THEN "panicked" ELSE "updating",
                !.last = [op |-> "update_batch", empty |-> values = <<>>,
                          unchanged |-> acc = my_sum.partial[p]]]
    /\ UNCHANGED <<accessvars, tempvars, fsvars>>

\* merge_batch(states) on the final accumulator: the states are the sums of
\* the partial accumulators, or the argument list is empty.
MergeBatch(empty) ==
    /\ my_sum.pc = "updating"
    /\ my_sum.last.op # "merge_batch"
    /\ LET type == LargestType(my_sum.input_type)
           states == IF empty THEN <<>>
                     ELSE <<<<my_sum.partial[1].sum, my_sum.partial[2].sum>>>>
           acc == merge_batch(my_sum.merged, states, type,
                              my_sum.overflow_checks)
       IN  my_sum' = [my_sum EXCEPT
                !.merged = acc,
                !.pc = IF acc.panicked THEN "panicked"
                       ELSE IF empty THEN "updating" ELSE "merged",
                !.last = [op |-> "merge_batch", empty |-> empty,
                          unchanged |-> acc = my_sum.merged]]
    /\ UNCHANGED <<accessvars, tempvars, fsvars>>

\* evaluate() on the final accumulator gives the query's result.
Evaluate ==
    /\ my_sum.pc = "merged"
    /\ my_sum' = [my_sum EXCEPT
                    !.pc = "done",
                    !.result = evaluate(my_sum.merged)]
    /\ UNCHANGED <<accessvars, tempvars, fsvars>>

SumNext ==
    \/ \E type \in LogicalTypes \cup {"String"}, checks \in BOOLEAN :
            CreateAccumulator(type, checks)
    \/ \E p \in 1..2 :
        \E values \in {<<>>} \cup
                {<<c>> : c \in InputColumns(my_sum.input_type)} :
            UpdateBatch(p, values)
    \/ \E empty \in BOOLEAN : MergeBatch(empty)
    \/ Evaluate

SpecSum == Init /\ [][SumNext]_vars

----------------------------------------------------------------------------
\* Properties of MY_SUM

\* The query's result at the width of the exact sum.
ResultValue ==
    Extend(my_sum.result, Signed(my_sum.input_type), ExactLimbs)

\* C22: no query panics; the result of a query is the exact sum of its
\* non-null inputs and is what one accumulator given every value holds;
\* update_batch and merge_batch with an empty argument list leave the
\* accumulator as it was.
C22_ExactSum ==
    /\ my_sum.pc # "panicked"
    /\ my_sum.pc = "done" =>
          /\ ResultValue = my_sum.exact
          /\ ~my_sum.whole.panicked
          /\ my_sum.result = my_sum.whole.sum
    /\ my_sum.last.empty => my_sum.last.unchanged

\* A release build summed the UInt64 column (u64::MAX, 1): the result is 0,
\* the exact sum is 2^64.
C22_Witness ==
    /\ my_sum.input_type = "UInt64"
    /\ ~my_sum.overflow_checks
    /\ my_sum.pc = "done"
    /\ my_sum.exact = [i \in 1..ExactLimbs |-> IF i = WideLimbs + 1 THEN 1 ELSE 0]
    /\ my_sum.result = Zero(WideLimbs)

\* What holds of MY_SUM: for the 32-bit input types, whose sums are kept in
\* 64 bits, no query of the model panics and the result is the exact sum
\* (u32::MAX + u32::MAX gives 8589934590); in a build without overflow
\* checks the merged partial sums equal the one accumulator's sum for every
\* input type; an empty argument list changes nothing.
MySumWidened ==
    /\ my_sum.input_type \in {"UInt32", "Int32"} =>
          /\ my_sum.pc # "panicked"
          /\ ~my_sum.whole.panicked
          /\ my_sum.pc = "done" =>
                /\ ResultValue = my_sum.exact
                /\ my_sum.result = my_sum.whole.sum
    /\ (my_sum.pc = "done" /\ ~my_sum.overflow_checks) =>
          my_sum.result = my_sum.whole.sum
    /\ my_sum.last.empty => my_sum.last.unchanged

\* The test's case: the UInt32 column (u32::MAX, u32::MAX) gives 8589934590.
MySumTestCase ==
    /\ my_sum.input_type = "UInt32"
    /\ my_sum.pc = "done"
    /\ my_sum.batches = 1
    /\ my_sum.result = <<65534, 65535, 1, 0>>

====
